---------------------------- MODULE Spec2Model ----------------------------
(***************************************************************************)
(* The K&R free-list allocator of user/umalloc.c (xv6, RISC-V 64).        *)
(*                                                                         *)
(* Addresses are counted in Header units (sizeof(Header) = 16 bytes): the  *)
(* code only ever compares Header pointers and adds Header counts to them. *)
(* Memory is the pair of partial maps sptr (the s.ptr field of the headers *)
(* that have been written) and ssize (the s.size field).  A header that is *)
(* absorbed by a merge or handed to a caller keeps its stale fields, as in *)
(* the real memory.                                                        *)
(***************************************************************************)
EXTENDS Integers, FiniteSets, Sequences, TLC

\* ------------------------------------------------------------------ bounds
\* Number of malloc/free calls of one run.
MaxOps == 7
\* Number of malloc/free calls of the two concurrent callers together.
ConcCalls == 3

\* --------------------------------------------------------------- constants
\* sizeof(Header): a pointer and a uint, aligned to long.
HeaderSize == 16
\* The floor of morecore: at least 4096 units per sbrk.
MinGrow == 4096
\* The null pointer.
NULL == 0
\* The address of the static sentinel `base` (below the heap).
base == 1
\* The program break before the first sbrk (above the data segment).
HeapStart == 3
\* (char*)-1, the failure value of sbrk.
SbrkFail == -1

\* The byte counts the callers ask for: 0 (one unit), 17 (three units, not
\* a multiple of the unit), 65536 (4097 units, more than the floor).
Requests == {0, 17, 65536}

VARIABLES
  sptr,       \* address -> s.ptr of the header at that address
  ssize,      \* address -> s.size of the header at that address
  freep,      \* the cursor
  brk,        \* the program break
  live,       \* the pointers the callers hold (returned, not yet freed)
  sinceFree,  \* the pointers returned since the last free, in order
  freedRun,   \* the blocks <<header, size>> freed since the last malloc
  last,       \* the last completed call
  nops,       \* the number of completed calls
  thr,        \* concurrent callers: thread -> its position and locals
  mutex,      \* concurrent callers: the holder of the lock, 0 if free
  locking     \* concurrent callers: whether they wrap each call in the lock

cvars == <<thr, mutex, locking>>
vars == <<sptr, ssize, freep, brk, live, sinceFree, freedRun, last, nops,
          cvars>>

\* ------------------------------------------------------------------ memory
\* f with f[a] set to v (a store to a header field).
Store(f, a, v) == [x \in (DOMAIN f) \cup {a} |-> IF x = a THEN v ELSE f[x]]

\* The allocator's memory as one value.
Mem == [sptr |-> sptr, ssize |-> ssize, freep |-> freep, brk |-> brk]

\* ---------------------------------------------------------------- free()
\* The scan with the wrap test cut short: it stops at the wrap link whether
\* or not bp belongs there.
RECURSIVE locateStopsAtWrap(_, _, _)
locateStopsAtWrap(m, p, bp) ==
  IF bp > p /\ bp < m.sptr[p] THEN p
  ELSE IF p >= m.sptr[p] THEN p
  ELSE locateStopsAtWrap(m, m.sptr[p], bp)

\* The scan of free(): the entry p after which bp belongs.
RECURSIVE locate(_, _, _)
locate(m, p, bp) ==
  IF bp > p /\ bp < m.sptr[p] THEN p
  ELSE IF p >= m.sptr[p] /\ (bp > p \/ bp < m.sptr[p]) THEN p
  ELSE locate(m, m.sptr[p], bp)

\* The number of entries the scan of free() looks at, from p on, before it
\* stops (the entry it stops at included).
RECURSIVE locateVisits(_, _, _)
locateVisits(m, p, bp) ==
  IF bp > p /\ bp < m.sptr[p] THEN 1
  ELSE IF p >= m.sptr[p] /\ (bp > p \/ bp < m.sptr[p]) THEN 1
  ELSE 1 + locateVisits(m, m.sptr[p], bp)

\* The forward merge that never merges: bp is always linked to the entry
\* after p.
mergeForwardNever(m, p, bp) ==
  [m EXCEPT !.sptr = Store(m.sptr, bp, m.sptr[p])]

\* The forward merge that forgets to add the size of the absorbed entry.
mergeForwardKeepsSize(m, p, bp) ==
  LET nxt == m.sptr[p]
  IN  IF bp + m.ssize[bp] = nxt
      THEN [m EXCEPT !.sptr = Store(m.sptr, bp, m.sptr[nxt])]
      ELSE [m EXCEPT !.sptr = Store(m.sptr, bp, nxt)]

\* The forward merge of free(): bp absorbs the entry after p when it ends
\* where that entry starts, and is linked to it otherwise.
mergeForward(m, p, bp) ==
  LET nxt == m.sptr[p]
  IN  IF bp + m.ssize[bp] = nxt
      THEN [m EXCEPT !.ssize = Store(m.ssize, bp, m.ssize[bp] + m.ssize[nxt]),
                     !.sptr = Store(m.sptr, bp, m.sptr[nxt])]
      ELSE [m EXCEPT !.sptr = Store(m.sptr, bp, nxt)]

\* The backward merge that forgets to add the size of the absorbed block.
mergeBackwardKeepsSize(m, p, bp) ==
  IF p + m.ssize[p] = bp
  THEN [m EXCEPT !.sptr = Store(m.sptr, p, m.sptr[bp])]
  ELSE [m EXCEPT !.sptr = Store(m.sptr, p, bp)]

\* The backward merge that never merges: bp is always linked after p.
mergeBackwardNever(m, p, bp) ==
  [m EXCEPT !.sptr = Store(m.sptr, p, bp)]

\* The backward merge of free(): p absorbs bp when p ends where bp starts,
\* and is linked to it otherwise.
mergeBackward(m, p, bp) ==
  IF p + m.ssize[p] = bp
  THEN [m EXCEPT !.ssize = Store(m.ssize, p, m.ssize[p] + m.ssize[bp]),
                 !.sptr = Store(m.sptr, p, m.sptr[bp])]
  ELSE [m EXCEPT !.sptr = Store(m.sptr, p, bp)]

\* free(ap) on memory m.
free(m, ap) ==
  LET bp == ap - 1
      p  == locate(m, m.freep, bp)
      m1 == mergeForward(m, p, bp)
      m2 == mergeBackward(m1, p, bp)
  IN  [m2 EXCEPT !.freep = p]

\* ---------------------------------------------------------------- sbrk()
\* sbrk(n): the break moves up by n bytes and the old break is returned,
\* or nothing changes and (char*)-1 is returned.
sbrk(m, n, ok) ==
  IF ok THEN [m |-> [m EXCEPT !.brk = m.brk + n \div HeaderSize], ret |-> m.brk]
        ELSE [m |-> m, ret |-> SbrkFail]

\* ------------------------------------------------------------ morecore()
\* morecore that writes the units asked for, not the units got from sbrk,
\* into the header of the new span.
morecoreSizeBeforeFloor(m, nu0, ok) ==
  LET nu == IF nu0 < MinGrow THEN MinGrow ELSE nu0
      r  == sbrk(m, nu * HeaderSize, ok)
  IN  IF r.ret = SbrkFail THEN [m |-> r.m, ret |-> NULL]
      ELSE LET hp == r.ret
               m1 == [r.m EXCEPT !.ssize = Store(r.m.ssize, hp, nu0)]
               m2 == free(m1, hp + 1)
           IN  [m |-> m2, ret |-> m2.freep]

\* morecore that always asks for the floor, also when more is needed.
morecoreAlwaysFloor(m, nu0, ok) ==
  LET nu == MinGrow
      r  == sbrk(m, nu * HeaderSize, ok)
  IN  IF r.ret = SbrkFail THEN [m |-> r.m, ret |-> NULL]
      ELSE LET hp == r.ret
               m1 == [r.m EXCEPT !.ssize = Store(r.m.ssize, hp, nu)]
               m2 == free(m1, hp + 1)
           IN  [m |-> m2, ret |-> m2.freep]

\* morecore without the floor: it asks sbrk for nu units as they come.
morecoreNoFloor(m, nu0, ok) ==
  LET nu == nu0
      r  == sbrk(m, nu * HeaderSize, ok)
  IN  IF r.ret = SbrkFail THEN [m |-> r.m, ret |-> NULL]
      ELSE LET hp == r.ret
               m1 == [r.m EXCEPT !.ssize = Store(r.m.ssize, hp, nu)]
               m2 == free(m1, hp + 1)
           IN  [m |-> m2, ret |-> m2.freep]

morecore(m, nu0, ok) ==
  LET nu == IF nu0 < MinGrow THEN MinGrow ELSE nu0
      r  == sbrk(m, nu * HeaderSize, ok)
  IN  IF r.ret = SbrkFail THEN [m |-> r.m, ret |-> NULL]
      ELSE LET hp == r.ret
               m1 == [r.m EXCEPT !.ssize = Store(r.m.ssize, hp, nu)]
               m2 == free(m1, hp + 1)
           IN  [m |-> m2, ret |-> m2.freep]

\* -------------------------------------------------------------- malloc()
\* nunits without the unit of the header.
NUnitsNoHeader(nbytes) == (nbytes + HeaderSize - 1) \div HeaderSize

\* nunits rounded down instead of up.
NUnitsFloor(nbytes) == nbytes \div HeaderSize + 1

\* nunits of malloc.  nbytes is a uint and sizeof is a 64-bit size_t, so
\* the sum is computed in 64 bits and cannot wrap.
NUnits(nbytes) == (nbytes + HeaderSize - 1) \div HeaderSize + 1

\* The exact match that leaves the cursor on the block it hands out.
takeExactCursorOnBlock(m, prevp, p) ==
  [m   |-> [m EXCEPT !.sptr = Store(m.sptr, prevp, m.sptr[p]), !.freep = p],
   ret |-> p + 1]

\* The exact match of malloc: p is unlinked and handed out whole.
takeExact(m, prevp, p) ==
  [m   |-> [m EXCEPT !.sptr = Store(m.sptr, prevp, m.sptr[p]), !.freep = prevp],
   ret |-> p + 1]

\* The split that carves from the head: the header of p gets nunits and is
\* handed out, the rest gets a header of its own that nothing links.
takeSplitFromHead(m, prevp, p, nunits) ==
  LET rest == m.ssize[p] - nunits
      sz1  == Store(m.ssize, p, nunits)
      sz2  == Store(sz1, p + nunits, rest)
  IN  [m   |-> [m EXCEPT !.ssize = sz2, !.freep = prevp],
       ret |-> p + 1]

\* The split that leaves the cursor on the block it carved from, not on its
\* predecessor.
takeSplitCursorOnBlock(m, prevp, p, nunits) ==
  LET sz1 == Store(m.ssize, p, m.ssize[p] - nunits)
      q   == p + sz1[p]
      sz2 == Store(sz1, q, nunits)
  IN  [m   |-> [m EXCEPT !.ssize = sz2, !.freep = p],
       ret |-> q + 1]

\* The split that also runs the unlink of the exact match.
takeSplitUnlinks(m, prevp, p, nunits) ==
  LET sz1 == Store(m.ssize, p, m.ssize[p] - nunits)
      q   == p + sz1[p]
      sz2 == Store(sz1, q, nunits)
  IN  [m   |-> [m EXCEPT !.sptr = Store(m.sptr, prevp, m.sptr[p]),
                         !.ssize = sz2, !.freep = prevp],
       ret |-> q + 1]

\* The split that shrinks p but forgets to move to its tail: the header of p
\* itself is handed out.
takeSplitNoAdvance(m, prevp, p, nunits) ==
  [m   |-> [m EXCEPT !.ssize = Store(m.ssize, p, nunits), !.freep = prevp],
   ret |-> p + 1]

\* The split that hands out the tail but forgets to shrink p.
takeSplitNoShrink(m, prevp, p, nunits) ==
  LET q   == p + (m.ssize[p] - nunits)
      sz2 == Store(m.ssize, q, nunits)
  IN  [m   |-> [m EXCEPT !.ssize = sz2, !.freep = prevp],
       ret |-> q + 1]

\* The split of malloc: p shrinks by nunits and its tail is handed out.
takeSplit(m, prevp, p, nunits) ==
  LET sz1 == Store(m.ssize, p, m.ssize[p] - nunits)
      q   == p + sz1[p]
      sz2 == Store(sz1, q, nunits)
  IN  [m   |-> [m EXCEPT !.ssize = sz2, !.freep = prevp],
       ret |-> q + 1]

\* The search loop of malloc from (prevp, p); grew counts the sbrk calls.
RECURSIVE search(_, _, _, _, _, _)
search(m, prevp, p, nunits, ok, grew) ==
  IF m.ssize[p] >= nunits THEN
    LET t == IF m.ssize[p] = nunits THEN takeExact(m, prevp, p)
                                    ELSE takeSplit(m, prevp, p, nunits)
    IN  [m |-> t.m, ret |-> t.ret, grew |-> grew]
  ELSE IF p = m.freep THEN
    LET mc == morecore(m, nunits, ok)
    IN  IF mc.ret = NULL
        THEN [m |-> mc.m, ret |-> NULL, grew |-> grew + 1]
        ELSE search(mc.m, mc.ret, mc.m.sptr[mc.ret], nunits, ok, grew + 1)
  ELSE search(m, p, m.sptr[p], nunits, ok, grew)

\* malloc whose search starts at the cursor itself, not at its successor.
mallocStartsAtCursor(m, nbytes, ok) ==
  LET nunits == NUnits(nbytes)
      m0 == IF m.freep = NULL
            THEN [m EXCEPT !.sptr = Store(m.sptr, base, base),
                           !.freep = base,
                           !.ssize = Store(m.ssize, base, 0)]
            ELSE m
  IN  search(m0, m0.freep, m0.freep, nunits, ok, 0)

\* malloc that sets up the sentinel on every call, not only on the first.
mallocReinit(m, nbytes, ok) ==
  LET nunits == NUnits(nbytes)
      m0 == [m EXCEPT !.sptr = Store(m.sptr, base, base),
                      !.freep = base,
                      !.ssize = Store(m.ssize, base, 0)]
  IN  search(m0, m0.freep, m0.sptr[m0.freep], nunits, ok, 0)

\* malloc(nbytes) on memory m; ok is the outcome of sbrk, if it is called.
malloc(m, nbytes, ok) ==
  LET nunits == NUnits(nbytes)
      m0 == IF m.freep = NULL
            THEN [m EXCEPT !.sptr = Store(m.sptr, base, base),
                           !.freep = base,
                           !.ssize = Store(m.ssize, base, 0)]
            ELSE m
  IN  search(m0, m0.freep, m0.sptr[m0.freep], nunits, ok, 0)

\* ----------------------------------------------------------- the machine
\* The memory before the first call: the static base is zero-filled.
InitMem == [sptr |-> [a \in {base} |-> NULL], ssize |-> [a \in {base} |-> 0],
            freep |-> NULL, brk |-> HeapStart]

\* The concurrent callers, and a caller between two calls: the pointers it
\* holds and the number of calls it has made.
Threads == {1, 2}
Idle(held, calls) ==
  [pc |-> "idle", nunits |-> 0, prevp |-> NULL, p |-> NULL, bp |-> NULL,
   tmp |-> 0, inGrow |-> FALSE, held |-> held, calls |-> calls]

\* The record of a call: what was asked, what came back, the number of sbrk
\* calls it made and whether sbrk failed, the memory and the callers'
\* pointers before it, and what the two calls before it were:
\*   fresh    (free)   the nbytes of the malloc just before, if ap is the
\*                     pointer that malloc returned, else -1
\*   reuseOf  (malloc) the pointer freed just before, if that free was
\*                     fresh for the same nbytes, else NULL
\*   triple   (malloc) the largest total size of three adjoining blocks
\*                     freed since the malloc before, else 0
NoCall == [op |-> "none", nbytes |-> 0, ap |-> NULL, ret |-> NULL, grew |-> 0,
           sbrkFailed |-> FALSE, pre |-> InitMem, preLive |-> {},
           fresh |-> -1, reuseOf |-> NULL, triple |-> 0]

Init ==
  /\ sptr = InitMem.sptr
  /\ ssize = InitMem.ssize
  /\ freep = InitMem.freep
  /\ brk = InitMem.brk
  /\ live = {}
  /\ sinceFree = <<>>
  /\ freedRun = {}
  /\ last = NoCall
  /\ nops = 0
  /\ thr = [t \in Threads |-> Idle({}, 0)]
  /\ mutex = 0
  /\ locking = TRUE

\* The largest total size of three blocks of the set S that follow one
\* another in memory, 0 if there are none.
TripleMax(S) ==
  LET T == {t[1][2] + t[2][2] + t[3][2] : t \in
              {t \in S \X S \X S : /\ t[1][1] + t[1][2] = t[2][1]
                                   /\ t[2][1] + t[2][2] = t[3][1]}}
  IN  IF T = {} THEN 0 ELSE CHOOSE x \in T : \A y \in T : y <= x

\* A caller runs malloc(nbytes); ok is what sbrk does if it is called.
Malloc(nbytes, ok) ==
  /\ nops < MaxOps
  /\ \E r \in {malloc(Mem, nbytes, ok)} :
         /\ sptr' = r.m.sptr
         /\ ssize' = r.m.ssize
         /\ freep' = r.m.freep
         /\ brk' = r.m.brk
         /\ live' = IF r.ret = NULL THEN live ELSE live \cup {r.ret}
         /\ sinceFree' = IF r.ret = NULL THEN sinceFree
                                         ELSE Append(sinceFree, r.ret)
         /\ freedRun' = {}
         /\ last' = [op |-> "malloc", nbytes |-> nbytes, ap |-> NULL,
                     ret |-> r.ret, grew |-> r.grew,
                     sbrkFailed |-> (r.grew > 0 /\ ~ok),
                     pre |-> Mem, preLive |-> live,
                     fresh |-> -1,
                     reuseOf |-> IF last.op = "free" /\ last.fresh = nbytes
                                 THEN last.ap ELSE NULL,
                     triple |-> TripleMax(freedRun)]
  /\ nops' = nops + 1
  /\ UNCHANGED cvars

\* A caller runs free(ap) on a pointer it holds.
Free(ap) ==
  /\ nops < MaxOps
  /\ ap \in live
  /\ \E m \in {free(Mem, ap)} :
         /\ sptr' = m.sptr
         /\ ssize' = m.ssize
         /\ freep' = m.freep
         /\ brk' = m.brk
  /\ live' = live \ {ap}
  /\ sinceFree' = <<>>
  /\ freedRun' = freedRun \cup {<<ap - 1, ssize[ap - 1]>>}
  /\ last' = [op |-> "free", nbytes |-> 0, ap |-> ap, ret |-> NULL,
              grew |-> 0, sbrkFailed |-> FALSE,
              pre |-> Mem, preLive |-> live,
              fresh |-> IF last.op = "malloc" /\ last.ret = ap
                        THEN last.nbytes ELSE -1,
              reuseOf |-> NULL, triple |-> 0]
  /\ nops' = nops + 1
  /\ UNCHANGED cvars

Next ==
  \/ \E nbytes \in Requests, ok \in BOOLEAN : Malloc(nbytes, ok)
  \/ \E ap \in live : Free(ap)

Spec == Init /\ [][Next]_vars

\* ------------------------------------------------------ reading the state
\* The entries met by following s.ptr from p.
RECURSIVE Reach(_, _, _)
Reach(P, p, seen) ==
  IF p \in seen \/ p \notin DOMAIN P THEN seen
  ELSE Reach(P, P[p], seen \cup {p})

\* The entries of the Free List of memory m: the chain through the cursor.
FreeListOf(m) == IF m.freep = NULL THEN {} ELSE Reach(m.sptr, m.freep, {})
FreeList == FreeListOf(Mem)

\* The sum of f over the set S.
RECURSIVE Sum(_, _)
Sum(f, S) ==
  IF S = {} THEN 0
  ELSE LET x == CHOOSE x \in S : TRUE IN f[x] + Sum(f, S \ {x})

\* Whether the unit ranges [a, a + size) of the headers a and b overlap.
Overlap(a, b) == a < b + ssize[b] /\ b < a + ssize[a]

\* The Free List part of a memory: every header field and the cursor.
ListOf(m) == [sptr |-> m.sptr, ssize |-> m.ssize, freep |-> m.freep]

\* --------------------------------------------------------------------- C1
\* C1: the blocks returned by a run of malloc calls with no free in between
\* are pairwise disjoint as unit ranges [header, header + size).
NoOverlap ==
  \A i, j \in 1..Len(sinceFree) :
    i # j => ~Overlap(sinceFree[i] - 1, sinceFree[j] - 1)

\* Three mallocs in a row, the last of which grew the region.
NoOverlapWitness ==
  /\ Len(sinceFree) >= 3
  /\ last.op = "malloc" /\ last.grew = 1 /\ last.ret # NULL

\* --------------------------------------------------------------------- C2
\* C2: after every call, the sizes of the Free List entries plus the sizes
\* of the live blocks add up to the units acquired from sbrk.
Conservation ==
  Sum(ssize, FreeList) + Sum(ssize, {ap - 1 : ap \in live}) = brk - HeapStart

\* A free that merged, with blocks live and several entries free.
ConservationWitness ==
  /\ last.op = "free"
  /\ (last.ap - 1) \notin FreeList
  /\ live # {}
  /\ Cardinality(FreeList) >= 3

\* --------------------------------------------------------------------- C3
\* C3 as stated: a malloc that fails leaves every header field and the
\* cursor as they were, the first call included.
OomUnmutatedAlways ==
  (last.op = "malloc" /\ last.sbrkFailed) =>
     /\ last.ret = NULL
     /\ ListOf(Mem) = ListOf(last.pre)

\* C3 as amended: a malloc whose sbrk fails returns NULL; if the list was
\* initialized it leaves every header field and the cursor as they were; on
\* the first call the only change is the initialization of the sentinel
\* (base.s.ptr = freep = &base); in both cases every following malloc does
\* what it would have done without the failed call.
OomUnmutated ==
  (last.op = "malloc" /\ last.sbrkFailed) =>
     /\ last.ret = NULL
     /\ brk = last.pre.brk
     /\ last.pre.freep # NULL => ListOf(Mem) = ListOf(last.pre)
     /\ last.pre.freep = NULL =>
          /\ freep = base
          /\ sptr = Store(last.pre.sptr, base, base)
          /\ ssize = last.pre.ssize
     /\ \A n \in Requests, ok \in BOOLEAN :
          malloc(Mem, n, ok) = malloc(last.pre, n, ok)

\* A failed malloc on a list that holds free blocks, with blocks live.
OomWitness ==
  /\ last.op = "malloc" /\ last.sbrkFailed
  /\ last.pre.freep # NULL
  /\ Cardinality(FreeList) >= 2
  /\ live # {}

\* --------------------------------------------------------------------- C4
\* C4: after every call no Free List entry ends where another one starts.
NoAdjacentFree ==
  \A A, B \in FreeList : A # B => A + ssize[A] # B

\* A malloc that grew the region while the top of the region was free: the
\* free of morecore merged the new span into that entry.
NoAdjacentWitness ==
  /\ last.op = "malloc" /\ last.grew = 1 /\ last.ret # NULL
  /\ \E e \in FreeListOf(last.pre) :
       e # base /\ e + last.pre.ssize[e] = last.pre.brk

\* --------------------------------------------------------------------- C5
\* C5: once initialized, the Free List is one cycle (from any entry,
\* following s.ptr visits every entry once and comes back) and along it the
\* addresses strictly increase except at exactly one link, the wrap
\* (p >= p->s.ptr, the test of free()), where the address drops; in the list
\* of the sentinel alone, and only there, that link is the entry's link to
\* itself.
CircularOrdered ==
  freep # NULL =>
    LET L == FreeList
    IN  /\ \A e \in L : sptr[e] \in L /\ Reach(sptr, sptr[e], {}) = L
        /\ \A e, f \in L : sptr[e] = sptr[f] => e = f
        /\ Cardinality({e \in L : sptr[e] <= e}) = 1
        /\ \A e \in L : sptr[e] = e => L = {base}

\* A free that linked a block between two entries of a longer list.
CircularWitness ==
  /\ last.op = "free"
  /\ Cardinality(FreeList) >= 4
  /\ (last.ap - 1) \in FreeList
  /\ sptr[last.ap - 1] # base

\* --------------------------------------------------------------------- C6
\* C6: from the first malloc on, the sentinel is an entry of the chain, its
\* size is 0 (no block was merged into it), no entry absorbed it, and no
\* caller holds it.
SentinelAnchored ==
  /\ (last.op = "malloc" => freep # NULL)
  /\ freep # NULL =>
       /\ base \in FreeList
       /\ ssize[base] = 0
       /\ \A e \in FreeList : e # base => ~(e <= base /\ base < e + ssize[e])
       /\ (base + 1) \notin live
       /\ last.ret # base + 1

\* A free put the lowest block of the heap back right after the sentinel,
\* with other entries in the list.
SentinelWitness ==
  /\ last.op = "free"
  /\ last.ap - 1 = HeapStart
  /\ sptr[base] = HeapStart
  /\ Cardinality(FreeList) >= 3

\* --------------------------------------------------------------------- C7
\* The first entry of memory m with size >= nunits in the order of malloc's
\* search: the entry after the cursor first, the cursor last; NULL if none.
RECURSIVE FirstFitFrom(_, _, _)
FirstFitFrom(m, p, nunits) ==
  IF m.ssize[p] >= nunits THEN p
  ELSE IF p = m.freep THEN NULL
  ELSE FirstFitFrom(m, m.sptr[p], nunits)

FirstFit(m, nunits) == FirstFitFrom(m, m.sptr[m.freep], nunits)

\* The entry of memory m whose units include the header address a.
Holder(m, a) ==
  LET H == {e \in FreeListOf(m) : e <= a /\ a < e + m.ssize[e]}
  IN  IF H = {} THEN NULL ELSE CHOOSE e \in H : TRUE

\* C7 as stated: p1 = malloc(n); free(p1); p2 = malloc(n) gives p2 = p1
\* with no sbrk, in every state.
ReuseAlways ==
  (last.op = "malloc" /\ last.reuseOf # NULL) =>
     last.ret = last.reuseOf /\ last.grew = 0

\* C7 as amended: the second malloc succeeds without sbrk and returns a
\* block of the same size; p2 = p1 exactly when, after the free, the entry
\* holding p1's units is the first entry of sufficient size in the search
\* order; it is when the block of p1 is itself that entry (the first malloc
\* was an exact match) and when no other entry is large enough.
ReuseAfterFree ==
  (last.op = "malloc" /\ last.reuseOf # NULL) =>
     LET n  == NUnits(last.nbytes)
         h  == Holder(last.pre, last.reuseOf - 1)
         ff == FirstFit(last.pre, n)
     IN  /\ last.grew = 0
         /\ last.ret # NULL
         /\ ssize[last.ret - 1] = n
         /\ h # NULL
         /\ (last.ret = last.reuseOf) <=> (ff = h)
         /\ h = last.reuseOf - 1 => last.ret = last.reuseOf
         /\ (\A e \in FreeListOf(last.pre) \ {h} : last.pre.ssize[e] < n)
              => last.ret = last.reuseOf

\* The reuse returned the same pointer although another entry was large
\* enough.
ReuseWitness ==
  /\ last.op = "malloc" /\ last.reuseOf # NULL
  /\ last.ret = last.reuseOf
  /\ \E e \in FreeListOf(last.pre) :
       /\ e # Holder(last.pre, last.reuseOf - 1)
       /\ last.pre.ssize[e] >= NUnits(last.nbytes)

\* --------------------------------------------------------------------- C8
\* C8: when three blocks that follow one another in memory have been freed
\* (in any order, by frees in a row), one Free List entry covers all three,
\* and a malloc that follows and needs no more units than the three blocks
\* had succeeds without calling sbrk.
CoalescingClosesGaps ==
  /\ \A a, b, c \in freedRun :
       (a[1] + a[2] = b[1] /\ b[1] + b[2] = c[1]) =>
          \E e \in FreeList : e <= a[1] /\ c[1] + c[2] <= e + ssize[e]
  /\ (last.op = "malloc" /\ last.triple > 0
        /\ NUnits(last.nbytes) <= last.triple) =>
          last.ret # NULL /\ last.grew = 0

\* Three adjoining blocks were freed and the malloc that followed asked for
\* exactly the units of the three.
CoalescingWitness ==
  /\ last.op = "malloc"
  /\ last.triple > 0
  /\ NUnits(last.nbytes) = last.triple
  /\ last.ret # NULL

\* --------------------------------------------------------------------- C9
\* C9: malloc(0), when sbrk does not fail, returns a non-null pointer to a
\* block of one unit inside the heap that no caller holds; and no malloc
\* returns a pointer that a caller holds, one from malloc(0) included.
ZeroSize ==
  last.op = "malloc" =>
    /\ (last.nbytes = 0 /\ ~last.sbrkFailed) =>
         /\ last.ret # NULL
         /\ HeapStart <= last.ret - 1 /\ last.ret - 1 < brk
         /\ ssize[last.ret - 1] = 1
         /\ last.ret \notin last.preLive
    /\ last.ret # NULL =>
         \A z \in last.preLive : ssize[z - 1] = 1 => last.ret # z

\* malloc(0) was served while another block of malloc(0) was live, and by
\* an exact match (the block was a Free List entry before the call).
ZeroSizeWitness ==
  /\ last.op = "malloc" /\ last.nbytes = 0 /\ last.ret # NULL
  /\ \E z \in last.preLive : ssize[z - 1] = 1
  /\ (last.ret - 1) \in FreeListOf(last.pre)

\* -------------------------------------------------------------------- C10
\* ceil(n / d).
CeilDiv(n, d) == IF n % d = 0 THEN n \div d ELSE n \div d + 1

\* C10: a malloc(nbytes) that succeeds returns the address one unit after a
\* header whose size is ceil(nbytes / unit) + 1, so at least nbytes bytes
\* follow the header inside the block.
Capacity ==
  (last.op = "malloc" /\ last.ret # NULL) =>
     /\ (last.ret - 1) \in DOMAIN ssize
     /\ ssize[last.ret - 1] = CeilDiv(last.nbytes, HeaderSize) + 1
     /\ (ssize[last.ret - 1] - 1) * HeaderSize >= last.nbytes

\* A request that is no multiple of the unit was served by an exact match
\* after others had been served by splits.
CapacityWitness ==
  /\ last.op = "malloc" /\ last.nbytes = 17 /\ last.ret # NULL
  /\ (last.ret - 1) \in FreeListOf(last.pre)
  /\ Cardinality(live) >= 2

\* ------------------------------------------------- the steps inside malloc
\* Memory m after the lazy set-up at the start of malloc.
AfterInit(m) ==
  IF m.freep = NULL
  THEN [m EXCEPT !.sptr = Store(m.sptr, base, base),
                 !.freep = base,
                 !.ssize = Store(m.ssize, base, 0)]
  ELSE m

\* The memory right after the morecore of the last call returned (the last
\* call being a malloc whose sbrk succeeded).
AfterGrowth == morecore(AfterInit(last.pre), NUnits(last.nbytes), TRUE).m

\* The memory on which the last call's search found its block: the memory
\* before the call, or the memory after its morecore.
SearchMem == IF last.grew = 0 THEN AfterInit(last.pre) ELSE AfterGrowth

\* -------------------------------------------------------------------- C11
\* C11: a malloc that calls sbrk for nunits = n and gets memory grows the
\* region by exactly max(n, 4096) units; a header of that size is written
\* at the old break, and when morecore returns one Free List entry covers
\* the whole new span: the new block itself, or the free block that ended
\* at the old break, grown by it.
GrowthFloor ==
  (last.op = "malloc" /\ last.grew >= 1 /\ ~last.sbrkFailed) =>
     LET n   == NUnits(last.nbytes)
         nu  == IF n > MinGrow THEN n ELSE MinGrow
         old == last.pre.brk
         g   == AfterGrowth
         top == {e \in FreeListOf(last.pre) :
                   e # base /\ e + last.pre.ssize[e] = old}
     IN  /\ brk - old = nu
         /\ g.brk = brk
         /\ g.ssize[old] = nu
         /\ top = {} => old \in FreeListOf(g)
         /\ \A e \in top : e \in FreeListOf(g) /\ g.ssize[e] = last.pre.ssize[e] + nu
         /\ \E e \in FreeListOf(g) : e <= old /\ old + nu <= e + g.ssize[e]

\* A one-unit request grew the region although blocks were live.
GrowthFloorWitness ==
  /\ last.op = "malloc" /\ last.grew = 1 /\ last.ret # NULL
  /\ last.nbytes = 0
  /\ last.preLive # {}
  /\ brk - last.pre.brk = MinGrow

\* -------------------------------------------------------------------- C12
\* C12: malloc calls sbrk exactly when no entry of the Free List, the one
\* at the cursor included, has size >= nunits at the time of the call; when
\* one fits, malloc returns a block and the break does not move.
GrowthOnlyWhenNoFit ==
  last.op = "malloc" =>
     LET n    == NUnits(last.nbytes)
         fits == {e \in FreeListOf(last.pre) : last.pre.ssize[e] >= n}
     IN  /\ (last.grew >= 1) <=> (fits = {})
         /\ fits # {} => last.ret # NULL /\ brk = last.pre.brk

\* The only entry that fits is the one at the cursor, the last one the
\* search looks at, and the call did not grow the region.
GrowthOnlyWitness ==
  /\ last.op = "malloc" /\ last.grew = 0 /\ last.ret # NULL
  /\ Cardinality(FreeListOf(last.pre)) >= 3
  /\ {e \in FreeListOf(last.pre) : last.pre.ssize[e] >= NUnits(last.nbytes)}
       = {last.pre.freep}

\* -------------------------------------------------------------------- C13
\* The state of the Free List of memory m in the words of the spec.
Kind(m) ==
  IF m.freep = NULL THEN "uninitialized"
  ELSE IF FreeListOf(m) = {base} THEN "has-sentinel-only"
  ELSE "non-empty"

\* Whether the last call, a malloc that returned a block, was served by an
\* exact match: the block it returned was an entry of the list searched.
WasExact == (last.ret - 1) \in FreeListOf(SearchMem)

\* C13 as stated: the list is never uninitialized after a call, and every
\* malloc and every free that starts on a non-empty list leaves it
\* non-empty.
StateMachineAsStated ==
  last.op # "none" =>
     /\ Kind(Mem) # "uninitialized"
     /\ Kind(last.pre) = "non-empty" => Kind(Mem) = "non-empty"

\* C13 as amended: the first call initializes the list for good; a list of
\* the sentinel alone becomes non-empty only by a growth or a free; a free
\* and a malloc served by a split leave the list non-empty; a malloc served
\* by an exact match leaves it non-empty unless it took the only free block,
\* and then the list is back to has-sentinel-only; a malloc that fails
\* leaves the state as it was (has-sentinel-only on the first call).
StateMachine ==
  last.op # "none" =>
     /\ Kind(Mem) # "uninitialized"
     /\ Kind(last.pre) = "uninitialized" => last.op = "malloc" /\ last.grew = 1
     /\ last.op = "free" => Kind(Mem) = "non-empty"
     /\ (last.op = "malloc" /\ last.ret = NULL) =>
          Kind(Mem) = Kind(AfterInit(last.pre))
     /\ (last.op = "malloc" /\ Kind(AfterInit(last.pre)) = "has-sentinel-only")
          => last.grew = 1
     /\ (last.op = "malloc" /\ last.ret # NULL) =>
          /\ Kind(SearchMem) = "non-empty"
          /\ ~WasExact => Kind(Mem) = "non-empty"
          /\ WasExact => ((Kind(Mem) = "has-sentinel-only")
                            <=> (FreeListOf(SearchMem) = {base, last.ret - 1}))

\* An exact match without growth took the only free block while other
\* blocks were live: non-empty to has-sentinel-only.
StateMachineWitness ==
  /\ last.op = "malloc" /\ last.ret # NULL /\ last.grew = 0
  /\ Kind(last.pre) = "non-empty"
  /\ Kind(Mem) = "has-sentinel-only"
  /\ last.preLive # {}

\* -------------------------------------------------------------------- C14
\* Whether the entry prev of memory m is where the block at b belongs:
\* prev < b < prev.next, or prev is the wrap entry and b is above prev or
\* below prev.next; and prev and prev.next are the neighbours of b in
\* address order among the entries.
Straddles(m, prev, b) ==
  LET L   == FreeListOf(m)
      nxt == m.sptr[prev]
  IN  /\ prev \in L
      /\ \/ prev < b /\ b < nxt
         \/ prev >= nxt /\ (b > prev \/ b < nxt)
      /\ \A e \in L : ~(prev < e /\ e < b)
      /\ \A e \in L : ~(b < e /\ e < nxt)
      /\ (\E e \in L : e < b) => prev < b
      /\ (\E e \in L : e > b) => b < nxt

\* C14: the scan of a free, started at any cursor, looks at no more entries
\* than the chain has and stops at the entry prev that straddles the block
\* with prev.next; so does the scan of the free that morecore runs on a new
\* span.
LocateInsertionPoint ==
  /\ last.op = "free" =>
       /\ locateVisits(last.pre, last.pre.freep, last.ap - 1)
            <= Cardinality(FreeListOf(last.pre))
       /\ locate(last.pre, last.pre.freep, last.ap - 1) = freep
       /\ Straddles(last.pre, freep, last.ap - 1)
  /\ (last.op = "malloc" /\ last.grew >= 1 /\ ~last.sbrkFailed) =>
       LET m0 == AfterInit(last.pre)
       IN  /\ locateVisits(m0, m0.freep, m0.brk) <= Cardinality(FreeListOf(m0))
           /\ Straddles(m0, locate(m0, m0.freep, m0.brk), m0.brk)

\* A free whose scan started at the wrap entry and went round through the
\* sentinel to reach the place of the block, between two entries.
LocateWitness ==
  /\ last.op = "free"
  /\ last.pre.sptr[last.pre.freep] = base
  /\ last.pre.freep # base
  /\ locateVisits(last.pre, last.pre.freep, last.ap - 1) >= 3
  /\ last.pre.sptr[freep] # base

\* -------------------------------------------------------------------- C15
\* C15: a malloc served by a split leaves the block it carves from at its
\* address with its link, smaller by exactly nunits, returns the units
\* right after it, and changes no other header field than the two sizes;
\* a malloc served by an exact match unlinks the block by changing the link
\* of its predecessor and no other header field.  (SearchMem is the memory
\* the search ran on.)
SplitFrame ==
  (last.op = "malloc" /\ last.ret # NULL) =>
     LET S  == SearchMem
         n  == NUnits(last.nbytes)
         b  == last.ret - 1
         L0 == FreeListOf(S)
     IN  IF WasExact
         THEN LET pred == {e \in L0 : S.sptr[e] = b}
              IN  /\ S.ssize[b] = n
                  /\ FreeList = L0 \ {b}
                  /\ ssize = S.ssize
                  /\ Cardinality(pred) = 1
                  /\ \A e \in pred : sptr[e] = S.sptr[b]
                  /\ \A a \in DOMAIN S.sptr : a \notin pred => sptr[a] = S.sptr[a]
                  /\ DOMAIN sptr = DOMAIN S.sptr
         ELSE LET src == Holder(S, b)
              IN  /\ src # NULL /\ src \in FreeList
                  /\ S.ssize[src] > n
                  /\ sptr = S.sptr
                  /\ ssize[src] = S.ssize[src] - n
                  /\ b = src + ssize[src]
                  /\ ssize[b] = n
                  /\ FreeList = L0
                  /\ \A a \in DOMAIN S.ssize : a \notin {src, b} => ssize[a] = S.ssize[a]
                  /\ DOMAIN ssize = DOMAIN S.ssize \cup {b}

\* A split carved from an entry in the middle of a list of several entries.
SplitFrameWitness ==
  /\ last.op = "malloc" /\ last.ret # NULL /\ ~WasExact
  /\ Cardinality(FreeList) >= 4
  /\ sptr[Holder(SearchMem, last.ret - 1)] # base
  /\ Holder(SearchMem, last.ret - 1) # sptr[base]

\* -------------------------------------------------------------------- C16
\* C16: a malloc that needs no growth is served by the first entry of size
\* >= nunits in the order successor of the cursor, ..., cursor; afterwards
\* the cursor is the predecessor of the entry that served it (after a
\* growth too, in the list that morecore left).
NextFitOrder ==
  (last.op = "malloc" /\ last.ret # NULL) =>
     LET S   == SearchMem
         n   == NUnits(last.nbytes)
         src == Holder(S, last.ret - 1)
     IN  /\ src # NULL
         /\ S.sptr[freep] = src
         /\ freep \in FreeListOf(S)
         /\ last.grew = 0 => src = FirstFit(last.pre, n)

\* Two entries fit and the one later in address order, first in search
\* order, served the request.
NextFitWitness ==
  /\ last.op = "malloc" /\ last.ret # NULL /\ last.grew = 0
  /\ \E e \in FreeListOf(last.pre) :
       /\ last.pre.ssize[e] >= NUnits(last.nbytes)
       /\ e < Holder(last.pre, last.ret - 1)
  /\ last.pre.freep # base

\* -------------------------------------------------------------------- C18
\* The headers of the blocks the region is made of: the Free List entries
\* but the sentinel, and the blocks the callers hold.
FreeBlocks == FreeList \ {base}
LiveBlocks == {ap - 1 : ap \in live}

\* The number of blocks met when walking the region from address a to the
\* break, each block starting where the one before ends; -1 if some address
\* on the way starts no block or the walk overshoots the break.
RECURSIVE Tiles(_, _)
Tiles(a, fuel) ==
  IF a = brk THEN 0
  ELSE IF fuel = 0 \/ a > brk \/ a \notin (FreeBlocks \cup LiveBlocks)
          \/ ssize[a] <= 0 THEN -1
  ELSE LET t == Tiles(a + ssize[a], fuel - 1)
       IN  IF t < 0 THEN -1 ELSE t + 1

\* C18: after every call the free blocks and the live blocks tile the
\* region from its start to the break: every unit lies in exactly one of
\* them, no block is both free and live, no live block overlaps a free one
\* or another live one, and a block just returned overlaps no block that
\* was live before.
Partition ==
  LET B == FreeBlocks \cup LiveBlocks
  IN  /\ FreeBlocks \cap LiveBlocks = {}
      /\ Tiles(HeapStart, Cardinality(B)) = Cardinality(B)
      /\ \A a, b \in B : a # b => ~Overlap(a, b)
      /\ (last.op = "malloc" /\ last.ret # NULL) =>
           /\ last.ret \notin last.preLive
           /\ \A q \in last.preLive : ~Overlap(last.ret - 1, q - 1)

\* A malloc after a free took units between two live blocks.
PartitionWitness ==
  /\ last.op = "malloc" /\ last.ret # NULL /\ last.grew = 0
  /\ \E q \in last.preLive : q < last.ret
  /\ \E q \in last.preLive : q > last.ret
  /\ FreeBlocks # {}
  /\ brk - HeapStart > MinGrow + 1

\* -------------------------------------------------------------------- C19
\* The entries linked in the chain that the sentinel is on.
Linked == Reach(sptr, sptr[base], {})

\* C19: once initialized, the cursor is an entry linked in the sentinel's
\* chain after every call; it is not the block just handed out, not a block
\* a caller holds, and not a header that lies inside an entry (one that a
\* merge absorbed).
CursorLinked ==
  freep # NULL =>
     /\ freep \in Linked
     /\ base \in Linked
     /\ freep \notin LiveBlocks
     /\ freep # last.ret - 1
     /\ \A e \in Linked : ~(e < freep /\ freep < e + ssize[e])

\* A free merged the block into the entry before it, which was not the
\* cursor, and absorbed the entry after it, which was.
CursorWitness ==
  /\ last.op = "free"
  /\ (last.ap - 1) \notin Linked
  /\ last.pre.freep \notin Linked
  /\ last.pre.freep # base
  /\ freep # base

\* -------------------------------------------------------------------- C20
\* The number of entries malloc's search looks at from p on before it meets
\* one of size >= nunits (that one included); -1 if it comes round to the
\* cursor without meeting one.
RECURSIVE searchVisits(_, _, _)
searchVisits(m, p, nunits) ==
  IF m.ssize[p] >= nunits THEN 1
  ELSE IF p = m.freep THEN -1
  ELSE LET v == searchVisits(m, m.sptr[p], nunits)
       IN  IF v < 0 THEN -1 ELSE v + 1

\* C20: every malloc ends after at most one sbrk call, with a pointer or
\* with NULL; NULL only when sbrk failed; after a growth the search, resumed
\* at the successor of the cursor that morecore returned, meets a fitting
\* entry within one round of the chain.
OneGrowth ==
  last.op = "malloc" =>
     /\ last.grew \in {0, 1}
     /\ (last.ret = NULL) <=> last.sbrkFailed
     /\ last.ret # NULL => (last.ret - 1 >= HeapStart /\ last.ret - 1 < brk)
     /\ (last.grew = 1 /\ ~last.sbrkFailed) =>
          LET g == AfterGrowth
              v == searchVisits(g, g.sptr[g.freep], NUnits(last.nbytes))
          IN  /\ v >= 1
              /\ v <= Cardinality(FreeListOf(g))
              /\ last.ret # NULL

\* A growth merged the new span into the free top block, on which the cursor
\* then stood, and the resumed search went round the whole chain to it.
OneGrowthWitness ==
  /\ last.op = "malloc" /\ last.grew = 1 /\ last.ret # NULL
  /\ AfterGrowth.freep # base
  /\ AfterGrowth.freep < last.pre.brk
  /\ AfterGrowth.freep + AfterGrowth.ssize[AfterGrowth.freep] = brk
  /\ searchVisits(AfterGrowth, AfterGrowth.sptr[AfterGrowth.freep],
                  NUnits(last.nbytes)) = Cardinality(FreeListOf(AfterGrowth))

\* ------------------------------------------------- two concurrent callers
\* Two threads call malloc and free on the same list.  A step is one
\* statement of the code that reads or writes the shared list; the
\* read-modify-write of line 105 (p->s.size -= nunits) is a load (into tmp)
\* and a later store.  When locking is set every call runs between the
\* acquire and the release of one mutex.
ConcInit ==
  /\ sptr = InitMem.sptr
  /\ ssize = InitMem.ssize
  /\ freep = InitMem.freep
  /\ brk = InitMem.brk
  /\ live = {}
  /\ sinceFree = <<>>
  /\ freedRun = {}
  /\ last = NoCall
  /\ nops = 0
  /\ thr = [t \in Threads |-> Idle({}, 0)]
  /\ mutex = 0
  /\ locking \in BOOLEAN

\* The sizes the concurrent callers ask for: the smallest request, which
\* splits a block, and one above the growth floor, which is an exact match.
ConcRequests == {0, 65536}

\* The calls started so far.
ConcStarted == thr[1].calls + thr[2].calls

\* The shared memory becomes m.
SetMem(m) ==
  /\ sptr' = m.sptr
  /\ ssize' = m.ssize
  /\ freep' = m.freep
  /\ brk' = m.brk

\* What the callers' steps leave alone.
ConcFrame == UNCHANGED <<live, sinceFree, freedRun, last, nops, locking>>

\* Thread t returns from its call with ret (NULL: nothing to hold) and
\* releases the lock.
Return(t, ret) ==
  /\ thr' = [thr EXCEPT ![t] =
               Idle(thr[t].held \cup (IF ret = NULL THEN {} ELSE {ret}),
                    thr[t].calls)]
  /\ mutex' = IF locking THEN 0 ELSE mutex

\* Thread t enters malloc(nbytes): line 92.
CMallocCall(t, nbytes) ==
  /\ thr[t].pc = "idle"
  /\ ConcStarted < ConcCalls
  /\ IF locking THEN mutex = 0 /\ mutex' = t ELSE mutex' = mutex
  /\ thr' = [thr EXCEPT ![t].pc = "m_start", ![t].nunits = NUnits(nbytes),
                        ![t].calls = @ + 1]
  /\ UNCHANGED <<sptr, ssize, freep, brk>>
  /\ ConcFrame

\* Lines 94-100: the lazy set-up and the start of the search.
CMStart(t) ==
  /\ thr[t].pc = "m_start"
  /\ LET m0 == AfterInit(Mem)
     IN  /\ SetMem(m0)
         /\ thr' = [thr EXCEPT ![t].pc = "m_loop", ![t].prevp = m0.freep,
                               ![t].p = m0.sptr[m0.freep]]
  /\ UNCHANGED mutex
  /\ ConcFrame

\* Lines 101, 113 and the step of line 100: one round of the search loop.
CMLoop(t) ==
  /\ thr[t].pc = "m_loop"
  /\ LET p == thr[t].p
     IN  thr' = IF ssize[p] >= thr[t].nunits
                  THEN [thr EXCEPT ![t].pc = "m_take"]
                ELSE IF p = freep
                  THEN [thr EXCEPT ![t].pc = "m_grow"]
                ELSE [thr EXCEPT ![t].prevp = p, ![t].p = sptr[p]]
  /\ UNCHANGED <<sptr, ssize, freep, brk, mutex>>
  /\ ConcFrame

\* Line 102: an exact match is unlinked and returned (lines 103, 109, 110);
\* otherwise the size is loaded for the subtraction of line 105.
CMTake(t) ==
  /\ thr[t].pc = "m_take"
  /\ IF ssize[thr[t].p] = thr[t].nunits
     THEN LET r == takeExact(Mem, thr[t].prevp, thr[t].p)
          IN  SetMem(r.m) /\ Return(t, r.ret)
     ELSE /\ thr' = [thr EXCEPT ![t].pc = "m_split", ![t].tmp = ssize[thr[t].p]]
          /\ UNCHANGED <<sptr, ssize, freep, brk, mutex>>
  /\ ConcFrame

\* Lines 105-110: the store of the smaller size, the header of the tail,
\* the cursor, the return.  A size that another thread has made smaller
\* than nunits wraps round as a uint; the thread is followed no further.
CMSplit(t) ==
  /\ thr[t].pc = "m_split"
  /\ IF thr[t].tmp < thr[t].nunits
     THEN /\ thr' = [thr EXCEPT ![t].pc = "wrapped"]
          /\ UNCHANGED <<sptr, ssize, freep, brk, mutex>>
     ELSE LET p    == thr[t].p
              rest == thr[t].tmp - thr[t].nunits
              q    == p + rest
          IN  /\ ssize' = Store(Store(ssize, p, rest), q, thr[t].nunits)
              /\ freep' = thr[t].prevp
              /\ UNCHANGED <<sptr, brk>>
              /\ Return(t, q + 1)
  /\ ConcFrame

\* Lines 114, 71-79: morecore up to its call of free.
CMGrow(t, ok) ==
  /\ thr[t].pc = "m_grow"
  /\ LET nu == IF thr[t].nunits < MinGrow THEN MinGrow ELSE thr[t].nunits
         r  == sbrk(Mem, nu * HeaderSize, ok)
     IN  IF r.ret = SbrkFail
         THEN UNCHANGED <<sptr, ssize, freep, brk>> /\ Return(t, NULL)
         ELSE /\ SetMem([r.m EXCEPT !.ssize = Store(r.m.ssize, r.ret, nu)])
              /\ thr' = [thr EXCEPT ![t].pc = "f_start", ![t].bp = r.ret,
                                    ![t].inGrow = TRUE]
              /\ UNCHANGED mutex
  /\ ConcFrame

\* Thread t enters free(ap) with a pointer it holds: line 38.
CFreeCall(t, ap) ==
  /\ thr[t].pc = "idle"
  /\ ConcStarted < ConcCalls
  /\ ap \in thr[t].held
  /\ IF locking THEN mutex = 0 /\ mutex' = t ELSE mutex' = mutex
  /\ thr' = [thr EXCEPT ![t].pc = "f_start", ![t].bp = ap - 1,
                        ![t].held = @ \ {ap}, ![t].calls = @ + 1]
  /\ UNCHANGED <<sptr, ssize, freep, brk>>
  /\ ConcFrame

\* Line 41: the scan starts at the cursor.
CFStart(t) ==
  /\ thr[t].pc = "f_start"
  /\ thr' = [thr EXCEPT ![t].pc = "f_scan", ![t].p = freep]
  /\ UNCHANGED <<sptr, ssize, freep, brk, mutex>>
  /\ ConcFrame

\* Lines 41-44: one round of the scan.
CFScan(t) ==
  /\ thr[t].pc = "f_scan"
  /\ LET p  == thr[t].p
         bp == thr[t].bp
     IN  thr' = IF \/ bp > p /\ bp < sptr[p]
                   \/ p >= sptr[p] /\ (bp > p \/ bp < sptr[p])
                THEN [thr EXCEPT ![t].pc = "f_fwd"]
                ELSE [thr EXCEPT ![t].p = sptr[p]]
  /\ UNCHANGED <<sptr, ssize, freep, brk, mutex>>
  /\ ConcFrame

\* Lines 47-52.
CFFwd(t) ==
  /\ thr[t].pc = "f_fwd"
  /\ SetMem(mergeForward(Mem, thr[t].p, thr[t].bp))
  /\ thr' = [thr EXCEPT ![t].pc = "f_bwd"]
  /\ UNCHANGED mutex
  /\ ConcFrame

\* Lines 55-60.
CFBwd(t) ==
  /\ thr[t].pc = "f_bwd"
  /\ SetMem(mergeBackward(Mem, thr[t].p, thr[t].bp))
  /\ thr' = [thr EXCEPT ![t].pc = "f_cursor"]
  /\ UNCHANGED mutex
  /\ ConcFrame

\* Line 62, and then the return to the caller, or to malloc when morecore
\* called: lines 82 and 114 and the step of line 100.
CFCursor(t) ==
  /\ thr[t].pc = "f_cursor"
  /\ freep' = thr[t].p
  /\ UNCHANGED <<sptr, ssize, brk>>
  /\ IF thr[t].inGrow
     THEN /\ thr' = [thr EXCEPT ![t].pc = "m_loop", ![t].prevp = thr[t].p,
                                ![t].p = sptr[thr[t].p], ![t].bp = NULL,
                                ![t].inGrow = FALSE]
          /\ UNCHANGED mutex
     ELSE Return(t, NULL)
  /\ ConcFrame

ConcNext ==
  \E t \in Threads :
    \/ \E nbytes \in ConcRequests : CMallocCall(t, nbytes)
    \/ CMStart(t)
    \/ CMLoop(t)
    \/ CMTake(t)
    \/ CMSplit(t)
    \/ \E ok \in BOOLEAN : CMGrow(t, ok)
    \/ \E ap \in thr[t].held : CFreeCall(t, ap)
    \/ CFStart(t)
    \/ CFScan(t)
    \/ CFFwd(t)
    \/ CFBwd(t)
    \/ CFCursor(t)

SpecConc == ConcInit /\ [][ConcNext]_vars

\* ------------------------------------------------------------------ C17
\* The pointers the callers hold, and the headers of their blocks.
ConcHeld == thr[1].held \cup thr[2].held
ConcHeldBlocks == {ap - 1 : ap \in ConcHeld}

\* No call is in progress.
Quiescent == \A t \in Threads : thr[t].pc = "idle"

\* The list and the held blocks are sound: no pointer is held twice, no two
\* held blocks share a unit, no held block is on the free list, the free
\* list is the address-ordered circle without adjacent neighbours, and the
\* free and the held units together are the units obtained by growth.
ConcSound ==
  /\ thr[1].held \cap thr[2].held = {}
  /\ \A a, b \in ConcHeldBlocks : a # b => ~Overlap(a, b)
  /\ ConcHeldBlocks \cap FreeList = {}
  /\ CircularOrdered
  /\ NoAdjacentFree
  /\ Sum(ssize, FreeList \ {base}) + Sum(ssize, ConcHeldBlocks)
       = brk - HeapStart

\* C17: when every call runs inside one mutual-exclusion region, at most
\* one call is in progress at any time, and whenever no call is in progress
\* the list and the blocks handed out are sound: no units handed to two
\* callers, none lost, the list circular and ordered.  (Without the region
\* the unsound states are reachable: the witness.)
MutexKeepsListSound ==
  locking =>
    /\ Cardinality({t \in Threads : thr[t].pc # "idle"}) <= 1
    /\ \A t \in Threads : thr[t].pc # "idle" => mutex = t
    /\ Quiescent => ConcSound

\* Without the lock two interleaved calls have been handed the same units:
\* both threads are back from malloc and hold the same pointer.
UnlockedCorruptsWitness ==
  /\ ~locking
  /\ Quiescent
  /\ thr[1].held \cap thr[2].held # {}

=============================================================================
